---- MODULE Spec2Model ----
(***************************************************************************)
(* Model of the data-transformation logic of the pewpew-world dashboard:   *)
(*   - the colour-code text codec (components/colorized-text.tsx and       *)
(*     helpers/text-utils),                                                *)
(*   - the best/worst highlighting of the score comparison table           *)
(*     (app/compare/page.tsx, CompareContent),                             *)
(*   - the composite score of the speedrun leaderboard page,               *)
(*   - the rendering of time-valued scores (player profile and compare),   *)
(*   - the filtered and sorted row model of DataTable,                     *)
(*   - the points a rank earns (the formula of the score help text),       *)
(*   - the requests of the player profile page and of the compare page.    *)
(* A JavaScript string is a sequence of one-character strings.             *)
(***************************************************************************)
EXTENDS Integers, Sequences, FiniteSets, TLC

VARIABLES
    \* ---- colour codec ----
    raw,            \* the text handed to ColorizedText / stripColorCodes
    segments,       \* the TextSegment[] returned by parseColoredString
    threw,          \* TRUE iff parseColoredString raised a TypeError
    plain,          \* the string returned by stripColorCodes
    codecPc,        \* "input" -> "decoded" -> "stripped"
    \* ---- score comparison table ----
    playersData,    \* CompareContent state: the fetched players, in order
    comparisonRow,  \* the ComparisonRow a table line is rendered from
    cells,          \* the rendered player cells of that row
    comparePc,      \* "data" -> "rendered"
    \* ---- speedrun leaderboard ----
    data,           \* SpeedrunLeaderboardPage state: the fetched entries
    isLoading,
    levelScope,
    playerMode,
    effectPending,  \* the [levelScope] effect has not run since the last change
    filteredData,   \* the useMemo result shown in the table
    \* ---- time-valued score cells ----
    rawScore,       \* the score of the row, in 1/100 tick (an integer tick is a multiple of 100)
    timeCell,       \* the rendered cell: its three numeric fields and its text
    timePc,         \* "score" -> "profile" | "compare": the page that rendered the cell
    \* ---- DataTable ----
    tableData,      \* the data prop: the rows, in input order
    sorting,        \* DataTable state: the SortingState
    globalFilter,   \* DataTable state: the text of the search box
    rowModel,       \* table.getRowModel().rows, as indices into tableData
    tablePc,        \* "idle" | "mounted"
    \* ---- points of a rank ----
    competitors,    \* N: the players that submitted a score to the level
    rank,           \* R: the rank of the player in the level
    points,         \* P: the result of pointsForRank
    pointsPc,       \* "call" -> "done"
    \* ---- player profile page ----
    profileApi,     \* what the API answers to the five requests of the page
    profilePending, \* the requests of the useEffect that have not settled
    profilePc,      \* "open" once PlayerProfilePage has rendered and issued its requests
    profile,        \* PlayerProfilePage state: history, placements, xpHistory,
                    \* blitzHistory, scores; each null until its request resolves
    \* ---- compare page: selection and requests (with playersData above) ----
    playersParam,   \* the 'players' parameter of the URL: a string, or null
    loading,        \* CompareContent state
    comparisonData, \* CompareContent state: the ComparisonRow[]
    runs,           \* the invocations of fetchAllData that have not returned
    availablePlayers,   \* the account ids offered by the search of the page
    selectionPc,    \* "mount" until the effects of the first render have run
    \* ---- DataTable: the defaultSort prop ----
    defaultSort,    \* the array passed by the parent: [ref, value], ref its identity
    \* ---- profile page with the progress bar ----
    progress,       \* PlayerProfilePage state, in 1/2900 (Scaled(100) is 100)
    profileLoading, \* PlayerProfilePage state: loading
    intervalActive, \* progressInterval is set and not cleared
    progressPc,     \* "inFlight" while fetchData awaits, then "settled"
    timeoutPending, \* the setTimeout of the finally block has not fired
    profileFetched, \* the setters of the try block have run
    progressMounted,    \* the page is mounted
    \* ---- compare page: one call of processComparisonData ----
    scoresRes,      \* the response handed to processComparisonData
    rowsPc          \* "response" before the call, "rows" after it

codecVars == <<raw, segments, threw, plain, codecPc>>
compareVars == <<playersData, comparisonRow, cells, comparePc>>
speedrunVars == <<data, isLoading, levelScope, playerMode, effectPending, filteredData>>
timeVars == <<rawScore, timeCell, timePc>>
tableVars == <<tableData, sorting, globalFilter, rowModel, tablePc>>
pointsVars == <<competitors, rank, points, pointsPc>>
profileVars == <<profileApi, profilePending, profile, profilePc>>
selectionVars == <<playersParam, loading, comparisonData, runs, availablePlayers, selectionPc>>
propsVars == <<defaultSort>>
progressVars == <<progress, profileLoading, intervalActive, progressPc, timeoutPending,
                  profileFetched, progressMounted>>
responseVars == <<scoresRes, rowsPc>>
restVars == <<propsVars, progressVars, responseVars>>
pageVars == <<profileVars, selectionVars, restVars>>
laterVars == <<timeVars, tableVars, pointsVars, pageVars>>
vars == <<codecVars, compareVars, speedrunVars, laterVars>>

----------------------------------------------------------------------------
(* Bounds of the model.                                                    *)
MaxPieces == 6      \* an input text is a concatenation of at most this many pieces
MaxPlayers == 3     \* size of the player universe of the comparison
MaxScore == 2       \* level scores are the multiples of 5 in -5*MaxScore .. 5*MaxScore
MaxEntries == 1     \* entries in a leaderboard response
MaxBucket == 1      \* a score bucket is a number of 1/16 point in -1 .. MaxBucket
MaxTicks == 5400    \* a whole-tick time score is in -MaxTicks .. MaxTicks
MaxRows == 1        \* rows of a table that is searched
MaxSortRows == 2    \* rows of a table, and entries of a leaderboard, that are sorted
MaxLevelScores == 2    \* scores of one level in a response
MaxIntervalTicks == 60  \* readings of the clock, one interval apart
MaxRuns == 2        \* invocations of fetchAllData in flight together
MaxRoot == 10       \* N is a sixth power and R a square of a number in 1 .. MaxRoot

(* Program constants.                                                      *)
ColorLen == 8       \* RRGGBBAA
TicksPerSecond == 30
ExpectedDuration == 2900      \* expectedDuration, in milliseconds
IntervalMs == 50              \* the period of progressInterval
ProgressCap == 95             \* the progress the interval stops at
ProgressDone == 100           \* setProgress(100)

----------------------------------------------------------------------------
(* Strings.                                                                *)
Hash == "#"
White == <<"f", "f", "f", "f", "f", "f", "f", "f">>
HexDigits == {"0", "1", "2", "3", "4", "5", "6", "7", "8", "9",
              "a", "b", "c", "d", "e", "f", "A", "B", "C", "D", "E", "F"}
Undefined == <<"undefined">>    \* no string: its single element is not a character

RECURSIVE Repeat(_, _)
Repeat(c, n) == IF n = 0 THEN <<>> ELSE <<c>> \o Repeat(c, n - 1)

\* The pieces input texts are built from: a sentinel, a hex digit, a
\* non-hex letter, a run of ColorLen-1 hex digits, a run of ColorLen letters.
Pieces == {<<Hash>>, <<"a">>, <<"z">>, Repeat("a", ColorLen - 1), Repeat("z", ColorLen)}

RECURSIVE Flatten(_)
Flatten(ps) == IF ps = <<>> THEN <<>> ELSE Head(ps) \o Flatten(Tail(ps))

Inputs == {Flatten(ps) : ps \in UNION {[1..n -> Pieces] : n \in 0..MaxPieces}}

\* String.prototype.substring(from) and substring(from, to), 0-based
Substring(s, from, to) ==
    LET lo == IF from > Len(s) THEN Len(s) ELSE from
        hi == IF to > Len(s) THEN Len(s) ELSE to
    IN SubSeq(s, lo + 1, hi)
SubstringFrom(s, from) == Substring(s, from, Len(s))

\* String.prototype.split("#"): always at least one part
RECURSIVE Split(_)
Split(s) ==
    IF \A i \in 1..Len(s) : s[i] # Hash
      THEN <<s>>
      ELSE LET i == CHOOSE k \in 1..Len(s) :
                        s[k] = Hash /\ \A j \in 1..(k - 1) : s[j] # Hash
           IN <<SubSeq(s, 1, i - 1)>> \o Split(SubSeq(s, i + 1, Len(s)))

\* parts[i] of a JavaScript array, 0-based: undefined outside the array
At(parts, i) == IF i + 1 \in DOMAIN parts THEN parts[i + 1] ELSE Undefined

----------------------------------------------------------------------------
(* parseColoredString                                                      *)

\* the for loop: i runs from its start value while i < last
RECURSIVE ParseLoop(_, _, _, _)
ParseLoop(parts, i, last, segs) ==
    IF ~(i < last) THEN [threw |-> FALSE, segments |-> segs]
    ELSE LET part == At(parts, i) IN
         IF part = Undefined
           THEN [threw |-> TRUE, segments |-> segs]    \* part.length of undefined
         ELSE IF Len(part) >= ColorLen
           THEN LET color == Substring(part, 0, ColorLen)
                    text == SubstringFrom(part, ColorLen)
                IN IF text # <<>>
                     THEN ParseLoop(parts, i + 1, last,
                                    Append(segs, [text |-> text, color |-> color]))
                     ELSE ParseLoop(parts, i + 1, last, segs)
         ELSE IF Len(part) > 0
           THEN ParseLoop(parts, i + 1, last,
                          Append(segs, [text |-> part, color |-> White]))
         ELSE ParseLoop(parts, i + 1, last, segs)

ParseHead(parts) ==
    IF At(parts, 0) # Undefined /\ At(parts, 0) # <<>>
      THEN <<[text |-> At(parts, 0), color |-> White]>>
      ELSE <<>>

\* the loop condition written i <= parts.length
parseColoredString_LoopPastEnd(s) ==
    LET parts == Split(s)
    IN ParseLoop(parts, 1, Len(parts) + 1, ParseHead(parts))

\* the first part dropped from the segments
parseColoredString_NoHead(s) ==
    LET parts == Split(s)
    IN ParseLoop(parts, 1, Len(parts), <<>>)

parseColoredString(s) ==
    LET parts == Split(s)
    IN ParseLoop(parts, 1, Len(parts), ParseHead(parts))

----------------------------------------------------------------------------
(* stripColorCodes                                                         *)

RECURSIVE StripLoop(_, _, _)
StripLoop(parts, i, result) ==
    IF ~(i < Len(parts)) THEN result
    ELSE LET part == At(parts, i) IN
         IF Len(part) >= ColorLen
           THEN StripLoop(parts, i + 1, result \o SubstringFrom(part, ColorLen))
           ELSE StripLoop(parts, i + 1, result \o part)

RECURSIVE StripLoop_RestoreHash(_, _, _)
StripLoop_RestoreHash(parts, i, result) ==
    IF ~(i < Len(parts)) THEN result
    ELSE LET part == At(parts, i) IN
         IF Len(part) >= ColorLen
           THEN StripLoop_RestoreHash(parts, i + 1, result \o SubstringFrom(part, ColorLen))
           ELSE StripLoop_RestoreHash(parts, i + 1, result \o <<Hash>> \o part)

\* short fragments keep their '#'
stripColorCodes_RestoreHash(text) ==
    LET parts == Split(text)
    IN StripLoop_RestoreHash(parts, 1, At(parts, 0))

stripColorCodes(text) ==
    LET parts == Split(text)
    IN StripLoop(parts, 1, IF At(parts, 0) = Undefined THEN <<>> ELSE At(parts, 0))

----------------------------------------------------------------------------
(* The codec as a state machine: a text is given, ColorizedText decodes    *)
(* it for rendering, the table filter strips it for searching.             *)

ColorizedText ==
    /\ codecPc = "input"
    /\ LET r == parseColoredString(raw)
       IN /\ segments' = r.segments
          /\ threw' = r.threw
    /\ codecPc' = "decoded"
    /\ UNCHANGED <<raw, plain>>
    /\ UNCHANGED <<compareVars, speedrunVars, laterVars>>

StripForSearch ==
    /\ codecPc = "decoded"
    /\ plain' = stripColorCodes(raw)
    /\ codecPc' = "stripped"
    /\ UNCHANGED <<raw, segments, threw>>
    /\ UNCHANGED <<compareVars, speedrunVars, laterVars>>

----------------------------------------------------------------------------
(* Score comparison table (CompareContent.renderScoresTable).              *)
(* A ComparisonRow holds value_type and, under the uuid of each player     *)
(* that has a score on the level, that score: scores is a function whose   *)
(* domain is the set of those players.                                     *)

PlayerIds == 1..MaxPlayers
ScoreValues == {5 * k : k \in (0 - MaxScore)..MaxScore}
ValueTypes == {0, 1}            \* 1 marks a speedrun (time) row

Range(f) == {f[i] : i \in DOMAIN f}

\* sequences without repetition over a set
DistinctSeqs(S) ==
    {q \in UNION {[1..n -> S] : n \in 0..Cardinality(S)} :
        \A i, j \in DOMAIN q : i # j => q[i] # q[j]}

ComparisonRows ==
    {[value_type |-> t, scores |-> f] :
        t \in ValueTypes,
        f \in UNION {[S -> ScoreValues] : S \in SUBSET PlayerIds}}

\* playersData.map((pl) => row.original[pl.uuid]?.score).filter((s) => s !== undefined)
RowScores(pd, row) ==
    LET present == SelectSeq(pd, LAMBDA q : q \in DOMAIN row.scores)
    IN [i \in 1..Len(present) |-> row.scores[present[i]]]

MathMax(scores) == CHOOSE m \in Range(scores) : \A x \in Range(scores) : x <= m
MathMin(scores) == CHOOSE m \in Range(scores) : \A x \in Range(scores) : m <= x

\* the guard of the highlighting as it would be with a cohort of one accepted
HasCohort_One(pd, scores) == Len(pd) >= 1 /\ Len(scores) > 0

\* playersData.length >= 1 and scores.length > 1
HasCohort(pd, scores) == Len(pd) >= 1 /\ Len(scores) > 1

\* the earlier revision of the page: on a speedrun row the minimum is best
BestScore_Speedrun(row, maxScore, minScore) ==
    IF row.value_type = 1 THEN minScore ELSE maxScore

BestScore(row, maxScore, minScore) == maxScore

WorstScore_Speedrun(row, maxScore, minScore) ==
    IF row.value_type = 1 THEN maxScore ELSE minScore

WorstScore(row, maxScore, minScore) == minScore

\* the two tests in the other order
PickColor_WorstFirst(score, bestScore, worstScore) ==
    IF score = worstScore THEN "red"
    ELSE IF score = bestScore THEN "green"
    ELSE "inherit"

\* if (pData.score === bestScore) green; else if (pData.score === worstScore) red
PickColor(score, bestScore, worstScore) ==
    IF score = bestScore THEN "green"
    ELSE IF score = worstScore THEN "red"
    ELSE "inherit"

\* the cell of player p in the line of row
Cell(pd, row, p) ==
    IF p \notin DOMAIN row.scores
      THEN [missing |-> TRUE, color |-> "muted"]
      ELSE LET scores == RowScores(pd, row) IN
           IF HasCohort(pd, scores)
             THEN LET maxScore == MathMax(scores)
                      minScore == MathMin(scores)
                  IN [missing |-> FALSE,
                      color |-> PickColor(row.scores[p],
                                          BestScore(row, maxScore, minScore),
                                          WorstScore(row, maxScore, minScore))]
             ELSE [missing |-> FALSE, color |-> "inherit"]

\* one table line: a cell per player column, in the order of playersData
RenderScoresTable ==
    /\ comparePc = "data"
    /\ cells' = [i \in 1..Len(playersData) |-> Cell(playersData, comparisonRow, playersData[i])]
    /\ comparePc' = "rendered"
    /\ UNCHANGED <<playersData, comparisonRow>>
    /\ UNCHANGED <<codecVars, speedrunVars, laterVars>>

----------------------------------------------------------------------------
(* Speedrun leaderboard page (SpeedrunLeaderboardPage).                    *)
(* Scores are numbers of 1/16 point, which binary floating point holds     *)
(* and adds exactly; a display score is a number of 1/100 point. 2/16 =    *)
(* 0.125 lies half-way between two hundredths, 1/16 and 3/16 do not.       *)

Scopes == {"all", "official", "community"}
Modes == {"all", "1p", "2p"}
BucketValues == (0 - 1)..MaxBucket

Entries ==
    [score_1p_official : BucketValues, score_2p_official : BucketValues,
     score_1p_community : BucketValues, score_2p_community : BucketValues]

\* the leaderboards of n entries a response can hold: entry i belongs to player i
Responses(n) ==
    {[i \in 1..n |-> [player_uuid |-> i, buckets |-> r[i]]] : r \in [1..n -> Entries]}

Abs(x) == IF x < 0 THEN 0 - x ELSE x

\* toFixed without the half: the digits after the second are cut off
ToFixed2_Truncate(score) ==
    LET n == (100 * Abs(score)) \div 16
    IN IF score < 0 THEN 0 - n ELSE n

\* parseFloat(score.toFixed(2)), sixteenths to hundredths: toFixed takes the
\* sign off, then the integer n with n / 100 nearest to the value, the
\* larger n when two are as near
ToFixed2(score) ==
    LET n == (100 * Abs(score) + 8) \div 16
    IN IF score < 0 THEN 0 - n ELSE n

\* the third test written with include2p
CompositeScore_WrongMode(entry, scope, mode) ==
    LET includeOfficial == scope = "all" \/ scope = "official"
        includeCommunity == scope = "all" \/ scope = "community"
        include1p == mode = "all" \/ mode = "1p"
        include2p == mode = "all" \/ mode = "2p"
    IN (IF includeOfficial /\ include1p THEN entry.score_1p_official ELSE 0)
       + (IF includeOfficial /\ include2p THEN entry.score_2p_official ELSE 0)
       + (IF includeCommunity /\ include2p THEN entry.score_1p_community ELSE 0)
       + (IF includeCommunity /\ include2p THEN entry.score_2p_community ELSE 0)

\* let score = 0; four conditional additions
CompositeScore(entry, scope, mode) ==
    LET includeOfficial == scope = "all" \/ scope = "official"
        includeCommunity == scope = "all" \/ scope = "community"
        include1p == mode = "all" \/ mode = "1p"
        include2p == mode = "all" \/ mode = "2p"
    IN (IF includeOfficial /\ include1p THEN entry.score_1p_official ELSE 0)
       + (IF includeOfficial /\ include2p THEN entry.score_2p_official ELSE 0)
       + (IF includeCommunity /\ include1p THEN entry.score_1p_community ELSE 0)
       + (IF includeCommunity /\ include2p THEN entry.score_2p_community ELSE 0)

\* .filter((entry) => entry.display_score > 0)
KeepEntry(e) == e.display_score > 0

\* an insertion that puts an entry before the entries of equal score
RECURSIVE SortByDisplayScore_TiesReversed(_)
SortByDisplayScore_TiesReversed(s) ==
    IF s = <<>> THEN <<>>
    ELSE LET front == SortByDisplayScore_TiesReversed(SubSeq(s, 1, Len(s) - 1))
             e == s[Len(s)]
             k == Cardinality({i \in DOMAIN front : front[i].display_score > e.display_score})
         IN SubSeq(front, 1, k) \o <<e>> \o SubSeq(front, k + 1, Len(front))

\* Array.prototype.sort((a, b) => b.display_score - a.display_score), stable
RECURSIVE SortByDisplayScore(_)
SortByDisplayScore(s) ==
    IF s = <<>> THEN <<>>
    ELSE LET front == SortByDisplayScore(SubSeq(s, 1, Len(s) - 1))
             e == s[Len(s)]
             k == Cardinality({i \in DOMAIN front : front[i].display_score >= e.display_score})
         IN SubSeq(front, 1, k) \o <<e>> \o SubSeq(front, k + 1, Len(front))

\* the useMemo: map, filter, sort
FilteredData(d, scope, mode) ==
    LET mapped == [i \in DOMAIN d |->
                     [player_uuid |-> d[i].player_uuid,
                      buckets |-> d[i].buckets,
                      display_score |-> ToFixed2(CompositeScore(d[i].buckets, scope, mode))]]
        kept == SelectSeq(mapped, KeepEntry)
    IN SortByDisplayScore(kept)

\* fetchData resolves
FetchSuccess ==
    /\ isLoading /\ ~effectPending
    /\ \E n \in 0..MaxEntries : \E d \in Responses(n) :
        /\ data' = d
        /\ filteredData' = FilteredData(d, levelScope, playerMode)
    /\ isLoading' = FALSE
    /\ UNCHANGED <<levelScope, playerMode, effectPending>>
    /\ UNCHANGED <<codecVars, compareVars, laterVars>>

\* fetchData rejects: the error is logged, data stays empty
FetchFailure ==
    /\ isLoading /\ ~effectPending
    /\ isLoading' = FALSE
    /\ UNCHANGED <<data, levelScope, playerMode, effectPending, filteredData>>
    /\ UNCHANGED <<codecVars, compareVars, laterVars>>

\* an item of the Levels dropdown
SetLevelScope ==
    /\ ~effectPending
    /\ \E s \in Scopes :
        /\ levelScope' = s
        /\ effectPending' = (s # levelScope)
        /\ filteredData' = FilteredData(data, s, playerMode)
    /\ UNCHANGED <<data, isLoading, playerMode>>
    /\ UNCHANGED <<codecVars, compareVars, laterVars>>

\* an item of the Mode dropdown, which is disabled while levelScope is community
SetPlayerMode ==
    /\ ~effectPending
    /\ levelScope # "community"
    /\ \E m \in Modes :
        /\ playerMode' = m
        /\ filteredData' = FilteredData(data, levelScope, m)
    /\ UNCHANGED <<data, isLoading, levelScope, effectPending>>
    /\ UNCHANGED <<codecVars, compareVars, laterVars>>

\* useEffect(() => { if (levelScope === "community") setPlayerMode("1p") }, [levelScope])
PlayerModeAfterEffect_Kept(scope, mode) == mode
PlayerModeAfterEffect(scope, mode) == IF scope = "community" THEN "1p" ELSE mode
ScopeEffect ==
    /\ effectPending
    /\ playerMode' = PlayerModeAfterEffect(levelScope, playerMode)
    /\ effectPending' = FALSE
    /\ filteredData' = FilteredData(data, levelScope, playerMode')
    /\ UNCHANGED <<data, isLoading, levelScope>>
    /\ UNCHANGED <<codecVars, compareVars, laterVars>>

----------------------------------------------------------------------------
(* Time-valued score cells: the score column of PlayerProfilePage and the  *)
(* player columns of the compare page (CompareContent).                    *)
(* A score is held in 1/100 tick, totalSeconds in 1/(100 * 30) second, so  *)
(* that a score that is no whole number of ticks can be written down.      *)

SecondUnit == 100 * TicksPerSecond      \* the units of totalSeconds in one second

\* 1799.97 ticks, and 1799.91 ticks
FractionalScores == {179997, 179991}
RawScores ==
    {100 * k : k \in (0 - MaxTicks)..MaxTicks}
        \cup FractionalScores \cup {0 - f : f \in FractionalScores}

Digits == <<"0", "1", "2", "3", "4", "5", "6", "7", "8", "9">>

RECURSIVE NatToString(_)
NatToString(n) ==
    IF n < 10 THEN <<Digits[n + 1]>>
    ELSE NatToString(n \div 10) \o <<Digits[(n % 10) + 1]>>

\* Number.prototype.toString of an integer; -0 prints as "0"
NumberToString(n) == IF n < 0 THEN <<"-">> \o NatToString(0 - n) ELSE NatToString(n)

\* str.padStart(2, "0")
PadStart2(str) == IF Len(str) >= 2 THEN str ELSE Repeat("0", 2 - Len(str)) \o str

\* Math.floor(totalSeconds / 60)
Minutes(totalSeconds) == totalSeconds \div (60 * SecondUnit)

\* the whole seconds without the remainder by 60
Seconds_Unwrapped(totalSeconds) == totalSeconds \div SecondUnit

\* Math.floor(totalSeconds % 60): the remainder has the sign of totalSeconds
Seconds(totalSeconds) ==
    LET r == Abs(totalSeconds) % (60 * SecondUnit)
    IN  IF totalSeconds >= 0 THEN r \div SecondUnit
        ELSE 0 - ((r + SecondUnit - 1) \div SecondUnit)

\* Math.round((totalSeconds - Math.floor(totalSeconds)) * 100)
Fraction(totalSeconds) ==
    ((totalSeconds % SecondUnit) * 100 + SecondUnit \div 2) \div SecondUnit

\* the template literal `${minutes}:${seconds...}.${fraction...}`
FormatTime(totalSeconds) ==
    LET minutes == Minutes(totalSeconds)
        seconds == Seconds(totalSeconds)
        fraction == Fraction(totalSeconds)
    IN  [minutes |-> minutes, seconds |-> seconds, fraction |-> fraction,
         text |-> NumberToString(minutes) \o <<":">> \o PadStart2(NumberToString(seconds))
                    \o <<".">> \o PadStart2(NumberToString(fraction))]

\* PlayerProfilePage: totalSeconds = Math.abs(val) / 30
ProfileCell(val) == FormatTime(Abs(val))
\* CompareContent: totalSeconds = (pData.score * -1) / 30
CompareCell(score) == FormatTime(score * (0 - 1))

NoCell == [minutes |-> 0, seconds |-> 0, fraction |-> 0, text |-> <<>>]

\* the score cell of a row with value_type 1 on the profile page
RenderProfileScore ==
    /\ timePc = "score"
    /\ timeCell' = ProfileCell(rawScore)
    /\ timePc' = "profile"
    /\ UNCHANGED rawScore
    /\ UNCHANGED <<codecVars, compareVars, speedrunVars, tableVars, pointsVars, pageVars>>

\* the cell of a player column of a row with value_type 1 on the compare page
RenderCompareScore ==
    /\ timePc = "score"
    /\ timeCell' = CompareCell(rawScore)
    /\ timePc' = "compare"
    /\ UNCHANGED rawScore
    /\ UNCHANGED <<codecVars, compareVars, speedrunVars, tableVars, pointsVars, pageVars>>

----------------------------------------------------------------------------
(* DataTable (components/data-table) over the rows of a leaderboard page:  *)
(* a player_name column and a score column.  A column value is a record    *)
(* [kind, str, num]: a string, a number or null.                           *)

StringValue(str) == [kind |-> "string", str |-> str, num |-> 0]
NumberValue(n) == [kind |-> "number", str |-> <<>>, num |-> n]
NullValue == [kind |-> "null", str |-> <<>>, num |-> 0]

ColumnIds == {"player_name", "score"}

UpperCase == <<"A", "B", "C", "D", "E", "F", "G", "H", "I", "J", "K", "L", "M",
               "N", "O", "P", "Q", "R", "S", "T", "U", "V", "W", "X", "Y", "Z">>
LowerCase == <<"a", "b", "c", "d", "e", "f", "g", "h", "i", "j", "k", "l", "m",
               "n", "o", "p", "q", "r", "s", "t", "u", "v", "w", "x", "y", "z">>
\* the characters of the model in code-unit order
CodeUnits == <<"#", "-">> \o Digits \o UpperCase \o LowerCase

LowerChar(c) ==
    IF \E k \in DOMAIN UpperCase : UpperCase[k] = c
    THEN LowerCase[CHOOSE k \in DOMAIN UpperCase : UpperCase[k] = c]
    ELSE c
\* String.prototype.toLowerCase
ToLowerCase(str) == [k \in DOMAIN str |-> LowerChar(str[k])]

\* String.prototype.includes
Includes(str, search) ==
    \E i \in 0..(Len(str) - Len(search)) :
        \A k \in 1..Len(search) : str[i + k] = search[k]

\* String(value)
StringOf(value) ==
    CASE value.kind = "string" -> value.str
      [] value.kind = "number" -> NumberToString(value.num)
      [] value.kind = "null" -> <<"n", "u", "l", "l">>

\* without if (value == null) return false
globalFilterFn_NoNullGuard(value, filterValue) ==
    LET cleanValue == ToLowerCase(stripColorCodes(StringOf(value)))
        cleanFilter == ToLowerCase(stripColorCodes(filterValue))
    IN Includes(cleanValue, cleanFilter)

\* the filter text taken as typed
globalFilterFn_RawFilter(value, filterValue) ==
    IF value.kind = "null" THEN FALSE
    ELSE LET cleanValue == ToLowerCase(stripColorCodes(StringOf(value)))
             cleanFilter == ToLowerCase(filterValue)
         IN Includes(cleanValue, cleanFilter)

\* globalFilterFn of useReactTable, on value = row.getValue(columnId)
globalFilterFn(value, filterValue) ==
    IF value.kind = "null" THEN FALSE
    ELSE LET cleanValue == ToLowerCase(stripColorCodes(StringOf(value)))
             cleanFilter == ToLowerCase(stripColorCodes(filterValue))
         IN Includes(cleanValue, cleanFilter)

RECURSIVE KeepIndices(_, _, _)
KeepIndices(rows, filter, i) ==
    IF i > Len(rows) THEN <<>>
    ELSE (IF \E col \in ColumnIds : globalFilterFn(rows[i][col], filter)
          THEN <<i>> ELSE <<>>) \o KeepIndices(rows, filter, i + 1)

\* getFilteredRowModel: no filtering while the filter text is empty, else the
\* rows for which globalFilterFn accepts the value of some column
FilteredRowModel(rows, filter) ==
    IF filter = <<>> THEN [i \in DOMAIN rows |-> i]
    ELSE KeepIndices(rows, filter, 1)

\* a < b of two strings: by code units, a proper prefix first
RECURSIVE StringLess(_, _)
StringLess(a, b) ==
    IF b = <<>> THEN FALSE
    ELSE IF a = <<>> THEN TRUE
    ELSE IF Head(a) = Head(b) THEN StringLess(Tail(a), Tail(b))
    ELSE (CHOOSE k \in DOMAIN CodeUnits : CodeUnits[k] = Head(a))
            < (CHOOSE k \in DOMAIN CodeUnits : CodeUnits[k] = Head(b))

\* the default comparator of a column, on the values the accessorKey reads:
\* numbers by value, strings as they are
CompareValues(x, y) ==
    CASE x.kind = "number" /\ y.kind = "number" ->
            IF x.num = y.num THEN 0 ELSE IF x.num > y.num THEN 1 ELSE 0 - 1
      [] x.kind = "string" /\ y.kind = "string" ->
            IF x.str = y.str THEN 0 ELSE IF StringLess(y.str, x.str) THEN 1 ELSE 0 - 1

\* the comparison of rows a and b under a SortingState: the first entry that
\* tells them apart decides, in its direction; else the input order
RECURSIVE CompareRows(_, _, _, _)
CompareRows(rows, a, b, sortingState) ==
    IF sortingState = <<>> THEN a - b
    ELSE LET entry == Head(sortingState)
             c == CompareValues(rows[a][entry.id], rows[b][entry.id])
         IN IF c # 0 THEN (IF entry.desc THEN 0 - c ELSE c)
            ELSE CompareRows(rows, a, b, Tail(sortingState))

\* getSortedRowModel
RECURSIVE SortedRowModel(_, _, _)
SortedRowModel(rows, indices, sortingState) ==
    IF indices = <<>> THEN <<>>
    ELSE LET front == SortedRowModel(rows, SubSeq(indices, 1, Len(indices) - 1), sortingState)
             e == indices[Len(indices)]
             k == Cardinality({i \in DOMAIN front :
                                  CompareRows(rows, front[i], e, sortingState) < 0})
         IN SubSeq(front, 1, k) \o <<e>> \o SubSeq(front, k + 1, Len(front))

\* table.getRowModel(): core rows, filtered, then sorted
RowModel(rows, sortingState, filter) ==
    SortedRowModel(rows, FilteredRowModel(rows, filter), sortingState)

\* ---- the tables that are searched ----
Red == <<"#", "f", "f", "0", "0", "0", "0", "f", "f">>
SearchNames ==
    { <<>>, <<"n">>, <<"N">>, <<"n", "N">>, <<"#">>,
      Red \o <<"n">>, <<"n">> \o Red \o <<"N">>,
      <<"j", "o", "h">> \o Red \o <<"n">>, <<"J", "o", "h", "n">> }
SearchScores == {1, 21}
SearchRows ==
    [player_name : {StringValue(n) : n \in SearchNames} \cup {NullValue},
     score : {NumberValue(n) : n \in SearchScores} \cup {NullValue}]
FilterTexts ==
    { <<>>, <<"n">>, <<"N">>, <<"n", "n">>, <<"l">>, <<"f">>, <<"1">>, <<"2">>,
      <<"#">>, Red, Red \o <<"n">>,
      <<"j", "o", "h", "n">>, <<"J", "O", "H", "N">>,
      <<"j", "o">> \o Red \o <<"h", "n">> }

\* ---- the tables that are sorted ----
Tint == <<"#">> \o Repeat("a", ColorLen)
SortNames == { <<"b">>, <<"c">>, Tint \o <<"b">>, Tint \o <<"d">> }
SortScores == {5, 7}
SortRows ==
    [player_name : {StringValue(n) : n \in SortNames},
     score : {NumberValue(n) : n \in SortScores}]
SortEntries == [id : ColumnIds, desc : BOOLEAN]
SortingStates ==
    {<<>>} \cup {<<e>> : e \in SortEntries}
           \cup {st \in {<<e, f>> : e \in SortEntries, f \in SortEntries} :
                    st[1].id # st[2].id}
\* defaultSort of the leaderboard pages
DefaultSort == <<[id |-> "score", desc |-> TRUE]>>

Tables(rowSet, maxRows) == UNION {[1..n -> rowSet] : n \in 0..maxRows}

\* onChange of the search box: setGlobalFilter(e.target.value)
SetGlobalFilter ==
    /\ tablePc = "mounted"
    /\ \E text \in FilterTexts :
        /\ globalFilter' = text
        /\ rowModel' = RowModel(tableData, sorting, text)
    /\ UNCHANGED <<tableData, sorting, tablePc>>
    /\ UNCHANGED <<codecVars, compareVars, speedrunVars, timeVars, pointsVars, pageVars>>

\* onSortingChange: setSorting, called by the sort handler of a header
SetSorting ==
    /\ tablePc = "mounted"
    /\ \E sortingState \in SortingStates :
        /\ sorting' = sortingState
        /\ rowModel' = RowModel(tableData, sortingState, globalFilter)
    /\ UNCHANGED <<tableData, globalFilter, tablePc>>
    /\ UNCHANGED <<codecVars, compareVars, speedrunVars, timeVars, pointsVars, pageVars>>

\* the leaderboard responses that are sorted: entries that score in one bucket
RankedEntries ==
    {[score_1p_official |-> v, score_2p_official |-> 0,
      score_1p_community |-> 0, score_2p_community |-> 0] : v \in 1..2}
RankedResponses(n) ==
    {[i \in 1..n |-> [player_uuid |-> i, buckets |-> r[i]]] : r \in [1..n -> RankedEntries]}

\* fetchData resolves with a response of ranked entries
FetchRanked ==
    /\ isLoading /\ ~effectPending
    /\ \E n \in 0..MaxSortRows : \E d \in RankedResponses(n) :
        /\ data' = d
        /\ filteredData' = FilteredData(d, levelScope, playerMode)
    /\ isLoading' = FALSE
    /\ UNCHANGED <<levelScope, playerMode, effectPending>>
    /\ UNCHANGED <<codecVars, compareVars, laterVars>>

----------------------------------------------------------------------------
(* Points of a rank: P = ((N ^ (1/6)) * 100) / sqrt(R), the formula of the *)
(* score help text, as the pure function pointsForRank(N, R).  N ranges    *)
(* over sixth powers and R over squares, where P is a fraction num / den.  *)

RECURSIVE Pow(_, _)
Pow(x, n) == IF n = 0 THEN 1 ELSE x * Pow(x, n - 1)

CohortSizes == {Pow(k, 6) : k \in 1..MaxRoot}
Ranks == {k * k : k \in 1..MaxRoot}

\* N ^ (1/6) and sqrt(R), on the inputs above
SixthRoot(n) == CHOOSE k \in 1..MaxRoot : Pow(k, 6) = n
Sqrt(r) == CHOOSE k \in 1..MaxRoot : k * k = r

NoPoints == [num |-> 0, den |-> 1]

\* the divisor taken as R
pointsForRank_RankNotRooted(n, r) == [num |-> SixthRoot(n) * 100, den |-> r]

\* P = ((N ^ (1/6)) * 100) / sqrt(R)
pointsForRank(n, r) == [num |-> SixthRoot(n) * 100, den |-> Sqrt(r)]

PointsForRankCall ==
    /\ pointsPc = "call"
    /\ points' = pointsForRank(competitors, rank)
    /\ pointsPc' = "done"
    /\ UNCHANGED <<competitors, rank>>
    /\ UNCHANGED <<codecVars, compareVars, speedrunVars, timeVars, tableVars, pageVars>>

----------------------------------------------------------------------------
(* PlayerProfilePage: the useEffect on [uuid] starts five requests, each   *)
(* with its own then-handler and none with a catch-handler.  A piece of    *)
(* state is [isNull, value]: null until its handler has run.               *)

ProfileRequests == {"history", "placements", "xpHistory", "blitzHistory", "scores"}

NullList == [isNull |-> TRUE, value |-> <<>>]
NullPlacements == [isNull |-> TRUE, value |-> 0]
Loaded(v) == [isNull |-> FALSE, value |-> v]

\* the answers of the API: username changes, a placement, entries with a
\* timestamp, and the levels of get_scores_by_level (absent, or a list)
ChangesAnswers == {<<>>, <<1>>, <<1, 2>>}
PlacementsAnswers == {1, 2}
XpAnswers ==
    {<<>>,
     <<[timestamp |-> 2, xp |-> 1], [timestamp |-> 1, xp |-> 2]>>,
     <<[timestamp |-> 1, xp |-> 2], [timestamp |-> 1, xp |-> 1]>>}
BlitzAnswers ==
    {<<>>, <<[timestamp |-> 2, bsr |-> 10], [timestamp |-> 1, bsr |-> 20]>>}
LevelsAnswers ==
    {[hasLevels |-> FALSE, levels |-> <<>>],
     [hasLevels |-> TRUE, levels |-> <<>>],
     [hasLevels |-> TRUE,
      levels |-> <<[level_uuid |-> 1, scores |-> <<[score |-> 5, value_type |-> 0],
                                                   [score |-> 0 - 1800, value_type |-> 1]>>],
                   [level_uuid |-> 2, scores |-> <<>>]>>]}
ProfileAnswers ==
    [history : ChangesAnswers, placements : PlacementsAnswers, xpHistory : XpAnswers,
     blitzHistory : BlitzAnswers, scores : LevelsAnswers]

\* Array.prototype.reverse
RECURSIVE Reverse(_)
Reverse(s) == IF s = <<>> THEN <<>> ELSE Reverse(Tail(s)) \o <<Head(s)>>

\* Array.prototype.sort((a, b) => a.timestamp - b.timestamp), stable
RECURSIVE SortByTimestamp(_)
SortByTimestamp(s) ==
    IF s = <<>> THEN <<>>
    ELSE LET front == SortByTimestamp(SubSeq(s, 1, Len(s) - 1))
             e == s[Len(s)]
             k == Cardinality({i \in DOMAIN front : front[i].timestamp <= e.timestamp})
         IN SubSeq(front, 1, k) \o <<e>> \o SubSeq(front, k + 1, Len(front))

\* .map((h) => ({ ...h, bsr: h.bsr / 10 })), on ratings that are multiples of 10
ScaleBsr(s) == [i \in DOMAIN s |-> [timestamp |-> s[i].timestamp, bsr |-> s[i].bsr \div 10]]

\* the two nested forEach that push one FlattenedScore per score
RECURSIVE FlattenLevels(_)
FlattenLevels(levels) ==
    IF levels = <<>> THEN <<>>
    ELSE LET level == Head(levels)
         IN [i \in DOMAIN level.scores |->
                [level_uuid |-> level.level_uuid,
                 score |-> level.scores[i].score,
                 value_type |-> level.scores[i].value_type]]
            \o FlattenLevels(Tail(levels))

\* the then-handlers
OnHistory(state, res) == [state EXCEPT !.history = Loaded(Reverse(res))]
OnPlacements(state, res) == [state EXCEPT !.placements = Loaded(res)]
OnXpHistory(state, res) == [state EXCEPT !.xpHistory = Loaded(SortByTimestamp(res))]
OnBlitzHistory(state, res) ==
    [state EXCEPT !.blitzHistory = Loaded(SortByTimestamp(ScaleBsr(res)))]
OnScores(state, res) ==
    [state EXCEPT !.scores =
        Loaded(IF res.hasLevels THEN FlattenLevels(res.levels) ELSE <<>>)]

ProfileResolved(request, handled) ==
    /\ request \in profilePending
    /\ profilePending' = profilePending \ {request}
    /\ profile' = handled
    /\ UNCHANGED <<profileApi, profilePc>>
    /\ UNCHANGED <<codecVars, compareVars, speedrunVars, timeVars, tableVars, pointsVars,
                   selectionVars, restVars>>

HistoryResolved == ProfileResolved("history", OnHistory(profile, profileApi.history))
PlacementsResolved ==
    ProfileResolved("placements", OnPlacements(profile, profileApi.placements))
XpHistoryResolved == ProfileResolved("xpHistory", OnXpHistory(profile, profileApi.xpHistory))
BlitzHistoryResolved ==
    ProfileResolved("blitzHistory", OnBlitzHistory(profile, profileApi.blitzHistory))
ScoresResolved == ProfileResolved("scores", OnScores(profile, profileApi.scores))

\* a request is rejected: no handler is attached to the rejection
ProfileRejected ==
    /\ \E request \in profilePending : profilePending' = profilePending \ {request}
    /\ UNCHANGED <<profileApi, profile, profilePc>>
    /\ UNCHANGED <<codecVars, compareVars, speedrunVars, timeVars, tableVars, pointsVars,
                   selectionVars, restVars>>

NoProfile ==
    [history |-> NullList, placements |-> NullPlacements, xpHistory |-> NullList,
     blitzHistory |-> NullList, scores |-> NullList]

----------------------------------------------------------------------------
(* CompareContent: the selection in the URL, and fetchAllData.  A uuid is  *)
(* a string without comma.  An invocation of fetchAllData is a record      *)
(* [uuids, stage, arrived]: the playerUuids it was started for, "players"  *)
(* while it awaits the per-player requests and "scores" while it awaits    *)
(* get_scores_by_level, and the per-player responses in order of arrival.  *)

Comma == ","
NullParam == <<"null">>         \* no string: searchParams.get returns null

\* String.prototype.split(",")
RECURSIVE SplitComma(_)
SplitComma(str) ==
    IF \A i \in 1..Len(str) : str[i] # Comma
      THEN <<str>>
      ELSE LET i == CHOOSE k \in 1..Len(str) :
                        str[k] = Comma /\ \A j \in 1..(k - 1) : str[j] # Comma
           IN <<SubSeq(str, 1, i - 1)>> \o SplitComma(SubSeq(str, i + 1, Len(str)))

\* Array.prototype.join(",")
RECURSIVE JoinComma(_)
JoinComma(ids) ==
    IF ids = <<>> THEN <<>>
    ELSE IF Len(ids) = 1 THEN ids[1]
    ELSE ids[1] \o <<Comma>> \o JoinComma(Tail(ids))

NonEmpty(id) == id # <<>>

\* playersParam ? playersParam.split(",").filter((id) => id) : []
PlayerUuids(param) ==
    IF param = NullParam \/ param = <<>> THEN <<>>
    ELSE SelectSeq(SplitComma(param), NonEmpty)

\* the requests of one player, in the order of the Promise.all array
CompareRequests == <<"placements", "xp", "blitz", "username">>
Slots(uuids) == {<<i, r>> : i \in DOMAIN uuids, r \in DOMAIN CompareRequests}

\* the PlayerData built from the four responses of a player
PlayerData(uuid) ==
    [uuid |-> uuid,
     name |-> <<"p">> \o uuid,
     placements |-> [player_uuid |-> uuid],
     xpHistory |-> SortByTimestamp(<<[timestamp |-> 2, xp |-> 1], [timestamp |-> 1, xp |-> 2]>>),
     blitzHistory |-> SortByTimestamp(ScaleBsr(<<[timestamp |-> 2, bsr |-> 10],
                                                 [timestamp |-> 1, bsr |-> 20]>>))]

\* the players in the order in which their last response arrived
RECURSIVE CompletionOrder(_, _)
CompletionOrder(arrived, done) ==
    IF arrived = <<>> THEN <<>>
    ELSE LET slot == arrived[Len(arrived)]
             front == SubSeq(arrived, 1, Len(arrived) - 1)
         IN IF slot[1] \in done THEN CompletionOrder(front, done)
            ELSE CompletionOrder(front, done \cup {slot[1]}) \o <<slot[1]>>

\* the results gathered as the players complete
FetchedPlayersData_AsCompleted(run) ==
    LET order == CompletionOrder(run.arrived, {})
    IN [k \in DOMAIN order |-> PlayerData(run.uuids[order[k]])]

\* await Promise.all(playersPromises): the results in the order of playerUuids
FetchedPlayersData(run) == [i \in DOMAIN run.uuids |-> PlayerData(run.uuids[i])]

\* the keys of scoresByType: the value types of a level, in the order in
\* which they first occur in its scores (Map keeps insertion order)
RECURSIVE TypesInOrder(_)
TypesInOrder(levelScores) ==
    IF levelScores = <<>> THEN <<>>
    ELSE LET front == SubSeq(levelScores, 1, Len(levelScores) - 1)
             last == levelScores[Len(levelScores)]
             types == TypesInOrder(front)
         IN IF \E k \in DOMAIN types : types[k] = last.value_type
              THEN types
              ELSE Append(types, last.value_type)

\* the row of one value type of a level: row[s.player_uuid] takes the scores
\* of that type one after the other, so the last score of a player stays
TypeRow(level, type) ==
    LET ofType == {k \in DOMAIN level.scores : level.scores[k].value_type = type}
        holders == {level.scores[k].player_uuid : k \in ofType}
        Last(uuid) == CHOOSE k \in ofType :
                          /\ level.scores[k].player_uuid = uuid
                          /\ \A j \in ofType :
                                level.scores[j].player_uuid = uuid => j <= k
    IN [level_uuid |-> level.level_uuid,
        value_type |-> type,
        scores |-> [uuid \in holders |-> level.scores[Last(uuid)].score]]

\* the rows pushed for one level
LevelRows(level) ==
    IF level.scores = <<>>
      THEN <<[level_uuid |-> level.level_uuid, value_type |-> 0, scores |-> <<>>]>>
      ELSE LET types == TypesInOrder(level.scores)
           IN [k \in DOMAIN types |-> TypeRow(level, types[k])]

\* the rows handed to setComparisonData
RECURSIVE ComparisonRowsOf(_)
ComparisonRowsOf(levels) ==
    IF levels = <<>> THEN <<>>
    ELSE LevelRows(levels[1]) \o ComparisonRowsOf(Tail(levels))

\* processComparisonData: without data.levels the state is left as it is
processComparisonData(current, response) ==
    IF ~response.hasLevels THEN current ELSE ComparisonRowsOf(response.levels)

\* the answer of get_scores_by_level for the players of a request: every
\* player has a score on the first level, the first player also a time,
\* and nobody has a score on the second level
ScoresResponse(uuids) ==
    [hasLevels |-> TRUE,
     levels |-> <<[level_uuid |-> 1,
                   scores |-> [i \in DOMAIN uuids |->
                                 [player_uuid |-> uuids[i], value_type |-> 0, score |-> 5 * i]]
                              \o <<[player_uuid |-> uuids[1], value_type |-> 1,
                                    score |-> 0 - 1800]>>],
                  [level_uuid |-> 2, scores |-> <<>>]>>]

Remove(seq, k) == SubSeq(seq, 1, k - 1) \o SubSeq(seq, k + 1, Len(seq))

\* the effect on [playerUuids]: it runs when the parameter, and with it the
\* memoised playerUuids array, has changed
PlayerUuidsEffect(param) ==
    LET uuids == PlayerUuids(param)
    IN IF uuids = <<>>
         THEN /\ loading' = FALSE
              /\ UNCHANGED runs
         ELSE /\ Len(runs) < MaxRuns
              /\ loading' = TRUE
              /\ runs' = Append(runs, [uuids |-> uuids, stage |-> "players", arrived |-> <<>>])

\* the first render of the page and its effects
Mount ==
    /\ selectionPc = "mount"
    /\ selectionPc' = "mounted"
    /\ PlayerUuidsEffect(playersParam)
    /\ UNCHANGED <<playersParam, comparisonData, availablePlayers, playersData>>
    /\ UNCHANGED <<raw, segments, threw, plain, codecPc, comparisonRow, cells, comparePc>>
    /\ UNCHANGED <<speedrunVars, timeVars, tableVars, pointsVars, profileVars, restVars>>

\* router.push of the URL with the new parameter, the render and its effects
Navigate(param) ==
    /\ playersParam' = param
    /\ IF param = playersParam
         THEN UNCHANGED <<loading, runs>>
         ELSE PlayerUuidsEffect(param)
    /\ UNCHANGED <<comparisonData, availablePlayers, selectionPc, playersData>>
    /\ UNCHANGED <<raw, segments, threw, plain, codecPc, comparisonRow, cells, comparePc>>
    /\ UNCHANGED <<speedrunVars, timeVars, tableVars, pointsVars, profileVars, restVars>>

Includes1(seq, x) == \E k \in DOMAIN seq : seq[k] = x

\* the parameter set by handleAddPlayer when it sets one
AddedParam(uuids, id) == JoinComma(Append(uuids, id))

\* handleAddPlayer(id), for an entry of the search list
handleAddPlayer(id) ==
    /\ selectionPc = "mounted"
    /\ LET playerUuids == PlayerUuids(playersParam)
       IN IF id # <<>> /\ ~Includes1(playerUuids, id)
            THEN Navigate(AddedParam(playerUuids, id))
            ELSE UNCHANGED vars

\* playerUuids.filter((uuid) => uuid !== uuidToRemove)
Without_Reversed(uuids, uuidToRemove) ==
    LET Keep(uuid) == uuid # uuidToRemove
    IN Reverse(SelectSeq(uuids, Keep))
Without(uuids, uuidToRemove) ==
    LET Keep(uuid) == uuid # uuidToRemove
    IN SelectSeq(uuids, Keep)

\* removePlayer(uuidToRemove), for a player shown in the selection
removePlayer(uuidToRemove) ==
    /\ selectionPc = "mounted"
    /\ \E k \in DOMAIN playersData : playersData[k].uuid = uuidToRemove
    /\ LET newUuids == Without(PlayerUuids(playersParam), uuidToRemove)
       IN Navigate(IF Len(newUuids) > 0 THEN JoinComma(newUuids) ELSE NullParam)

\* the search list holds no entry with an empty id, which the handler
\* nevertheless guards against
AddPlayer == \E id \in availablePlayers \cup {<<>>} : handleAddPlayer(id)
RemovePlayer == \E k \in DOMAIN playersData : removePlayer(playersData[k].uuid)

RunFrame ==
    /\ UNCHANGED <<playersParam, availablePlayers, selectionPc>>
    /\ UNCHANGED <<raw, segments, threw, plain, codecPc, comparisonRow, cells, comparePc>>
    /\ UNCHANGED <<speedrunVars, timeVars, tableVars, pointsVars, profileVars, restVars>>

\* one of the four responses of one player of an invocation arrives
ResponseArrived ==
    \E k \in DOMAIN runs :
        /\ runs[k].stage = "players"
        /\ \E slot \in Slots(runs[k].uuids) \ Range(runs[k].arrived) :
              runs' = [runs EXCEPT ![k].arrived = Append(@, slot)]
        /\ UNCHANGED <<loading, comparisonData, playersData>>
        /\ RunFrame

\* the slots of an invocation, player by player
SlotsInOrder(uuids) ==
    [n \in 1..(Len(uuids) * Len(CompareRequests)) |->
        <<((n - 1) \div Len(CompareRequests)) + 1, ((n - 1) % Len(CompareRequests)) + 1>>]

\* all responses of an invocation arrive
ResponsesArrived ==
    \E k \in DOMAIN runs :
        /\ runs[k].stage = "players"
        /\ runs[k].arrived = <<>>
        /\ runs' = [runs EXCEPT ![k].arrived = SlotsInOrder(runs[k].uuids)]
        /\ UNCHANGED <<loading, comparisonData, playersData>>
        /\ RunFrame

\* fetchAllData resumes after await Promise.all(playersPromises)
PlayersFetched ==
    \E k \in DOMAIN runs :
        /\ runs[k].stage = "players"
        /\ Range(runs[k].arrived) = Slots(runs[k].uuids)
        /\ playersData' = FetchedPlayersData(runs[k])
        /\ runs' = [runs EXCEPT ![k].stage = "scores"]
        /\ UNCHANGED <<loading, comparisonData>>
        /\ RunFrame

\* fetchAllData resumes after the scores request, and returns
ScoresFetched ==
    \E k \in DOMAIN runs :
        /\ runs[k].stage = "scores"
        /\ comparisonData' = processComparisonData(comparisonData, ScoresResponse(runs[k].uuids))
        /\ loading' = FALSE
        /\ runs' = Remove(runs, k)
        /\ UNCHANGED playersData
        /\ RunFrame

\* a request of an invocation is rejected: catch, then finally
RunRejected ==
    \E k \in DOMAIN runs :
        /\ loading' = FALSE
        /\ runs' = Remove(runs, k)
        /\ UNCHANGED <<comparisonData, playersData>>
        /\ RunFrame

----------------------------------------------------------------------------
(* DataTable: the sorting state and the defaultSort prop.  Every caller    *)
(* writes the prop as an array literal, so each render of the parent       *)
(* passes a new array; ref tells two arrays apart, value is what they hold.*)

\* the dependency [defaultSort] is compared with Object.is
SameDependency(old, new) == old.ref = new.ref

\* the prop of the next render of the parent: the same literal, a new array
NextProp(prop) == [ref |-> 1 - prop.ref, value |-> prop.value]

\* the parent renders; useEffect(() => { setSorting(defaultSort) }, [defaultSort])
ParentRender ==
    /\ tablePc = "mounted"
    /\ defaultSort' = NextProp(defaultSort)
    /\ sorting' = IF SameDependency(defaultSort, defaultSort')
                    THEN sorting ELSE defaultSort'.value
    /\ rowModel' = RowModel(tableData, sorting', globalFilter)
    /\ UNCHANGED <<tableData, globalFilter, tablePc>>
    /\ UNCHANGED <<codecVars, compareVars, speedrunVars, timeVars, pointsVars>>
    /\ UNCHANGED <<profileVars, selectionVars, progressVars, responseVars>>

----------------------------------------------------------------------------
(* PlayerProfilePage with the progress bar (the revision that has one).    *)
(* progress is held in 1/ExpectedDuration, so that                         *)
(* (elapsed / expectedDuration) * 95 is the whole number elapsed * 95.     *)

Scaled(n) == n * ExpectedDuration
Min(a, b) == IF a <= b THEN a ELSE b
Max(a, b) == IF a >= b THEN a ELSE b

\* Date.now() - startTime as a tick reads it: the wall clock, which need not
\* advance evenly from one tick to the next
ElapsedValues == {IntervalMs * k : k \in 0..MaxIntervalTicks}

\* the updater without Math.max
ProgressUpdate_TargetOnly(prev, elapsed) ==
    IF prev >= Scaled(ProgressCap) THEN Scaled(ProgressCap)
    ELSE Min(elapsed * ProgressCap, Scaled(ProgressCap))

\* the updater passed to setProgress by the interval
ProgressUpdate(prev, elapsed) ==
    IF prev >= Scaled(ProgressCap) THEN Scaled(ProgressCap)
    ELSE Max(prev, Min(elapsed * ProgressCap, Scaled(ProgressCap)))

ProgressFrame ==
    /\ UNCHANGED <<codecVars, compareVars, speedrunVars, timeVars, tableVars, pointsVars>>
    /\ UNCHANGED <<profileVars, selectionVars, propsVars, responseVars>>

\* a tick of progressInterval
ProgressTick ==
    /\ intervalActive
    /\ \E elapsed \in ElapsedValues : progress' = ProgressUpdate(progress, elapsed)
    /\ UNCHANGED <<profileLoading, intervalActive, progressPc, timeoutPending,
                   profileFetched, progressMounted>>
    /\ ProgressFrame

\* the finally block of fetchData; the setters of an unmounted page do nothing
Finally ==
    /\ progressPc = "inFlight"
    /\ progressPc' = "settled"
    /\ intervalActive' = FALSE
    /\ progress' = IF progressMounted THEN Scaled(ProgressDone) ELSE progress
    /\ timeoutPending' = TRUE
    /\ UNCHANGED <<profileLoading, progressMounted>>
    /\ ProgressFrame

\* Promise.all resolves: the four setters, then finally
ProfileFetchResolved ==
    /\ Finally
    /\ profileFetched' = progressMounted

\* Promise.all rejects: catch, then finally
ProfileFetchRejected ==
    /\ Finally
    /\ UNCHANGED profileFetched

\* the callback of setTimeout(..., 400)
LoadingTimeout ==
    /\ timeoutPending
    /\ timeoutPending' = FALSE
    /\ profileLoading' = IF progressMounted THEN FALSE ELSE profileLoading
    /\ UNCHANGED <<progress, intervalActive, progressPc, profileFetched, progressMounted>>
    /\ ProgressFrame

\* the cleanup of the effect: clearInterval(progressInterval)
ProgressUnmount ==
    /\ progressMounted
    /\ progressMounted' = FALSE
    /\ intervalActive' = FALSE
    /\ UNCHANGED <<progress, profileLoading, progressPc, timeoutPending, profileFetched>>
    /\ ProgressFrame

----------------------------------------------------------------------------
(* One call of processComparisonData on a response of the scores request.  *)

\* a PlayerLevelScore: the score of a player on one version of a level
LevelScores ==
    {[player_uuid |-> <<p>>, value_type |-> t, level_version |-> v, score |-> 5 * v] :
        p \in {"1", "2"}, t \in ValueTypes, v \in {1, 2}}

\* responses with two levels, and responses without levels
ComparisonResponses(maxScores) ==
    {[hasLevels |-> FALSE, levels |-> <<>>]} \cup
    {[hasLevels |-> TRUE,
      levels |-> <<[level_uuid |-> 1, scores |-> first],
                   [level_uuid |-> 2, scores |-> second]>>] :
        first \in UNION {[1..n -> LevelScores] : n \in 0..maxScores},
        second \in {<<>>, <<[player_uuid |-> <<"1">>, value_type |-> 1,
                             level_version |-> 1, score |-> 5]>>}}

\* processComparisonData(scoresRes.data)
ProcessComparisonData ==
    /\ rowsPc = "response"
    /\ comparisonData' = processComparisonData(comparisonData, scoresRes)
    /\ rowsPc' = "rows"
    /\ UNCHANGED <<scoresRes, playersParam, loading, runs, availablePlayers, selectionPc>>
    /\ UNCHANGED <<codecVars, compareVars, speedrunVars, timeVars, tableVars, pointsVars>>
    /\ UNCHANGED <<profileVars, propsVars, progressVars>>

----------------------------------------------------------------------------
(* Initial states and specifications, one per part of the program.         *)

CodecIdle ==
    /\ raw = <<>> /\ segments = <<>> /\ threw = FALSE /\ plain = <<>>
    /\ codecPc = "idle"
CompareIdle ==
    /\ playersData = <<>>
    /\ comparisonRow = [value_type |-> 0, scores |-> <<>>]
    /\ cells = <<>>
    /\ comparePc = "idle"
SpeedrunIdle ==
    /\ data = <<>> /\ isLoading = FALSE /\ levelScope = "all" /\ playerMode = "all"
    /\ effectPending = FALSE /\ filteredData = <<>>
TimeIdle == rawScore = 0 /\ timeCell = NoCell /\ timePc = "idle"
TableIdle ==
    /\ tableData = <<>> /\ sorting = <<>> /\ globalFilter = <<>>
    /\ rowModel = <<>> /\ tablePc = "idle"
PointsIdle == competitors = 1 /\ rank = 1 /\ points = NoPoints /\ pointsPc = "idle"
ProfileIdle ==
    /\ profileApi = [history |-> <<>>, placements |-> 1, xpHistory |-> <<>>,
                     blitzHistory |-> <<>>, scores |-> [hasLevels |-> FALSE, levels |-> <<>>]]
    /\ profilePending = {}
    /\ profile = NoProfile
    /\ profilePc = "idle"
SelectionIdle ==
    /\ playersParam = NullParam /\ loading = FALSE /\ comparisonData = <<>>
    /\ runs = <<>> /\ availablePlayers = {} /\ selectionPc = "idle"
PropsIdle == defaultSort = [ref |-> 0, value |-> <<>>]
ProgressIdle ==
    /\ progress = 0 /\ profileLoading = FALSE /\ intervalActive = FALSE
    /\ progressPc = "idle" /\ timeoutPending = FALSE /\ profileFetched = FALSE
    /\ progressMounted = FALSE
ResponseIdle == scoresRes = [hasLevels |-> FALSE, levels |-> <<>>] /\ rowsPc = "idle"
RestIdle == PropsIdle /\ ProgressIdle /\ ResponseIdle
PageIdle == ProfileIdle /\ SelectionIdle /\ RestIdle
LaterIdle == TimeIdle /\ TableIdle /\ PointsIdle /\ PageIdle

InitCodec ==
    /\ raw \in Inputs
    /\ segments = <<>> /\ threw = FALSE /\ plain = <<>>
    /\ codecPc = "input"
    /\ CompareIdle /\ SpeedrunIdle /\ LaterIdle
NextCodec == ColorizedText \/ StripForSearch
SpecCodec == InitCodec /\ [][NextCodec]_vars

InitCompare ==
    /\ playersData \in DistinctSeqs(PlayerIds)
    /\ comparisonRow \in ComparisonRows
    /\ cells = <<>>
    /\ comparePc = "data"
    /\ CodecIdle /\ SpeedrunIdle /\ LaterIdle
NextCompare == RenderScoresTable
SpecCompare == InitCompare /\ [][NextCompare]_vars

InitSpeedrun ==
    /\ data = <<>> /\ isLoading = TRUE
    /\ levelScope = "all" /\ playerMode = "all"
    /\ effectPending = TRUE
    /\ filteredData = <<>>
    /\ CodecIdle /\ CompareIdle /\ LaterIdle
NextSpeedrun ==
    \/ FetchSuccess \/ FetchFailure
    \/ SetLevelScope \/ SetPlayerMode \/ ScopeEffect
SpecSpeedrun == InitSpeedrun /\ [][NextSpeedrun]_vars

InitTime ==
    /\ rawScore \in RawScores
    /\ timeCell = NoCell
    /\ timePc = "score"
    /\ CodecIdle /\ CompareIdle /\ SpeedrunIdle /\ TableIdle /\ PointsIdle /\ PageIdle
NextTime == RenderProfileScore \/ RenderCompareScore
SpecTime == InitTime /\ [][NextTime]_vars

\* a DataTable without defaultSort over the rows that are searched
InitFilter ==
    /\ tableData \in Tables(SearchRows, MaxRows)
    /\ sorting = <<>>
    /\ globalFilter = <<>>
    /\ rowModel = RowModel(tableData, sorting, globalFilter)
    /\ tablePc = "mounted"
    /\ CodecIdle /\ CompareIdle /\ SpeedrunIdle /\ TimeIdle /\ PointsIdle /\ PageIdle
NextFilter == SetGlobalFilter
SpecFilter == InitFilter /\ [][NextFilter]_vars

\* a leaderboard table with its defaultSort, or the speedrun leaderboard page
InitSort ==
    \/ /\ tableData \in Tables(SortRows, MaxSortRows)
       /\ sorting = DefaultSort
       /\ globalFilter = <<>>
       /\ rowModel = RowModel(tableData, sorting, globalFilter)
       /\ tablePc = "mounted"
       /\ CodecIdle /\ CompareIdle /\ SpeedrunIdle /\ TimeIdle /\ PointsIdle /\ PageIdle
    \/ /\ data = <<>> /\ isLoading = TRUE
       /\ levelScope = "all" /\ playerMode = "all"
       /\ effectPending = TRUE
       /\ filteredData = <<>>
       /\ CodecIdle /\ CompareIdle /\ TimeIdle /\ TableIdle /\ PointsIdle /\ PageIdle
NextSort == SetSorting \/ ScopeEffect \/ FetchRanked
SpecSort == InitSort /\ [][NextSort]_vars

InitPoints ==
    /\ competitors \in CohortSizes
    /\ rank \in Ranks
    /\ points = NoPoints
    /\ pointsPc = "call"
    /\ CodecIdle /\ CompareIdle /\ SpeedrunIdle /\ TimeIdle /\ TableIdle /\ PageIdle
NextPoints == PointsForRankCall
SpecPoints == InitPoints /\ [][NextPoints]_vars

\* the profile page after its first render with its five requests issued, or
\* the compare page opened on a URL that names one or two players
FetchParams == {<<"1">>, <<"2", Comma, "1">>}
InitFetch ==
    \/ /\ profileApi \in ProfileAnswers
       /\ profilePending = ProfileRequests
       /\ profile = NoProfile
       /\ profilePc = "open"
       /\ CodecIdle /\ CompareIdle /\ SpeedrunIdle /\ TimeIdle /\ TableIdle /\ PointsIdle
       /\ SelectionIdle /\ RestIdle
    \/ /\ playersParam \in FetchParams
       /\ loading = TRUE /\ comparisonData = <<>> /\ runs = <<>>
       /\ availablePlayers = {} /\ selectionPc = "mount"
       /\ CodecIdle /\ CompareIdle /\ SpeedrunIdle /\ TimeIdle /\ TableIdle /\ PointsIdle
       /\ ProfileIdle /\ RestIdle
NextFetch ==
    \/ HistoryResolved \/ PlacementsResolved \/ XpHistoryResolved
    \/ BlitzHistoryResolved \/ ScoresResolved
    \/ Mount \/ ResponseArrived \/ PlayersFetched \/ ScoresFetched
SpecFetch == InitFetch /\ [][NextFetch]_vars

\* the compare page opened without a selection, two players on offer
InitSelection ==
    /\ playersParam \in {NullParam, <<>>}
    /\ loading = TRUE /\ comparisonData = <<>> /\ runs = <<>>
    /\ availablePlayers = {<<"1">>, <<"2">>}
    /\ selectionPc = "mount"
    /\ CodecIdle /\ CompareIdle /\ SpeedrunIdle /\ TimeIdle /\ TableIdle /\ PointsIdle
    /\ ProfileIdle /\ RestIdle
NextSelection ==
    \/ Mount \/ AddPlayer \/ RemovePlayer
    \/ ResponsesArrived \/ PlayersFetched \/ ScoresFetched
SpecSelection == InitSelection /\ [][NextSelection]_vars

\* the same page with three players on offer, and a visitor who lets the
\* page finish loading before the next click
InitUrl ==
    /\ playersParam \in {NullParam, <<>>}
    /\ loading = TRUE /\ comparisonData = <<>> /\ runs = <<>>
    /\ availablePlayers = {<<"1">>, <<"2">>, <<"3">>}
    /\ selectionPc = "mount"
    /\ CodecIdle /\ CompareIdle /\ SpeedrunIdle /\ TimeIdle /\ TableIdle /\ PointsIdle
    /\ ProfileIdle /\ RestIdle
NextUrl ==
    \/ Mount
    \/ (~loading /\ AddPlayer)
    \/ (~loading /\ RemovePlayer)
    \/ ResponsesArrived \/ PlayersFetched \/ ScoresFetched
SpecUrl == InitUrl /\ [][NextUrl]_vars

\* a page after its first render, its requests issued: the profile page, the
\* speedrun leaderboard, or the compare page opened on a URL that names
\* players; every request settles in the end
InitLoading ==
    \/ /\ profileApi \in ProfileAnswers
       /\ profilePending = ProfileRequests
       /\ profile = NoProfile
       /\ profilePc = "open"
       /\ CodecIdle /\ CompareIdle /\ SpeedrunIdle /\ TimeIdle /\ TableIdle /\ PointsIdle
       /\ SelectionIdle /\ RestIdle
    \/ /\ data = <<>> /\ isLoading = TRUE
       /\ levelScope = "all" /\ playerMode = "all"
       /\ effectPending = TRUE
       /\ filteredData = <<>>
       /\ CodecIdle /\ CompareIdle /\ TimeIdle /\ TableIdle /\ PointsIdle /\ PageIdle
    \/ /\ playersParam \in FetchParams
       /\ loading = TRUE /\ comparisonData = <<>> /\ runs = <<>>
       /\ availablePlayers = {} /\ selectionPc = "mount"
       /\ CodecIdle /\ CompareIdle /\ SpeedrunIdle /\ TimeIdle /\ TableIdle /\ PointsIdle
       /\ ProfileIdle /\ RestIdle
NextLoading ==
    \/ HistoryResolved \/ PlacementsResolved \/ XpHistoryResolved
    \/ BlitzHistoryResolved \/ ScoresResolved \/ ProfileRejected
    \/ ScopeEffect \/ FetchSuccess \/ FetchFailure
    \/ Mount \/ ResponsesArrived \/ PlayersFetched \/ ScoresFetched \/ RunRejected
SpecLoading == InitLoading /\ [][NextLoading]_vars /\ WF_vars(NextLoading)

\* a leaderboard table with its defaultSort, under a parent that renders again
InitSortState ==
    /\ tableData \in Tables(SortRows, MaxSortRows)
    /\ sorting = DefaultSort
    /\ globalFilter = <<>>
    /\ rowModel = RowModel(tableData, sorting, globalFilter)
    /\ tablePc = "mounted"
    /\ defaultSort = [ref |-> 0, value |-> DefaultSort]
    /\ CodecIdle /\ CompareIdle /\ SpeedrunIdle /\ TimeIdle /\ PointsIdle
    /\ ProfileIdle /\ SelectionIdle /\ ProgressIdle /\ ResponseIdle
NextSortState == SetSorting \/ ParentRender
SpecSortState == InitSortState /\ [][NextSortState]_vars

\* the profile page after its first render: interval set, fetchData awaiting
InitProgress ==
    /\ progress = 0 /\ profileLoading = TRUE /\ intervalActive = TRUE
    /\ progressPc = "inFlight" /\ timeoutPending = FALSE /\ profileFetched = FALSE
    /\ progressMounted = TRUE
    /\ CodecIdle /\ CompareIdle /\ SpeedrunIdle /\ TimeIdle /\ TableIdle /\ PointsIdle
    /\ ProfileIdle /\ SelectionIdle /\ PropsIdle /\ ResponseIdle
NextProgress ==
    \/ ProgressTick \/ ProfileFetchResolved \/ ProfileFetchRejected
    \/ LoadingTimeout \/ ProgressUnmount
SpecProgress == InitProgress /\ [][NextProgress]_vars

\* the compare page when the scores request of its players has resolved
InitRows ==
    /\ scoresRes \in ComparisonResponses(MaxLevelScores)
    /\ rowsPc = "response"
    /\ playersParam = NullParam /\ loading = TRUE /\ comparisonData = <<>>
    /\ runs = <<>> /\ availablePlayers = {} /\ selectionPc = "mounted"
    /\ CodecIdle /\ CompareIdle /\ SpeedrunIdle /\ TimeIdle /\ TableIdle /\ PointsIdle
    /\ ProfileIdle /\ PropsIdle /\ ProgressIdle
NextRows == ProcessComparisonData
SpecRows == InitRows /\ [][NextRows]_vars

----------------------------------------------------------------------------
(* Properties of the colour codec, checked under SpecCodec.                *)

Decoded == codecPc \in {"decoded", "stripped"}
Lit(str) == [text |-> str, color |-> White]
IsHexColor(c) == Len(c) = ColorLen /\ \A k \in 1..Len(c) : c[k] \in HexDigits

RECURSIVE JoinHash(_)
JoinHash(parts) ==
    IF Len(parts) = 1 THEN parts[1]
    ELSE parts[1] \o <<Hash>> \o JoinHash(Tail(parts))

RECURSIVE ConcatTexts(_)
ConcatTexts(segs) ==
    IF segs = <<>> THEN <<>> ELSE Head(segs).text \o ConcatTexts(Tail(segs))

\* a well-formed TextSegment: a non-empty text without sentinel, an 8-character color
IsSegment(g) ==
    /\ DOMAIN g = {"text", "color"}
    /\ Len(g.text) > 0 /\ \A k \in 1..Len(g.text) : g.text[k] # Hash
    /\ Len(g.color) = ColorLen

\* C1: decoding is total: whatever the text (empty, a lone '#', a trailing
\* '#', consecutive '#', a '#' followed by fewer than 8 characters),
\* parseColoredString raises nothing and returns a sequence of segments.
C1_DecodeTotal ==
    Decoded =>
        /\ threw = FALSE
        /\ DOMAIN segments = 1..Len(segments)
        /\ \A k \in 1..Len(segments) : IsSegment(segments[k])

\* a malformed text was decoded: consecutive '#', a trailing '#' and a short fragment
C1_Witness ==
    /\ codecPc = "decoded" /\ threw = FALSE
    /\ raw = <<"a", Hash, Hash, "z", Hash>>
    /\ segments = <<Lit(<<"a">>), Lit(<<"z">>)>>

\* what the parts p1..pn contribute, as the claim words it; keepEmpty tells
\* whether a short part is emitted even when it is empty
C2_LaterPart(part, keepEmpty) ==
    IF Len(part) >= ColorLen
      THEN IF Len(part) > ColorLen
             THEN <<[text |-> SubSeq(part, ColorLen + 1, Len(part)),
                     color |-> SubSeq(part, 1, ColorLen)]>>
             ELSE <<>>
      ELSE IF keepEmpty \/ part # <<>> THEN <<Lit(part)>> ELSE <<>>

RECURSIVE C2_LaterParts(_, _)
C2_LaterParts(parts, keepEmpty) ==
    IF parts = <<>> THEN <<>>
    ELSE C2_LaterPart(Head(parts), keepEmpty) \o C2_LaterParts(Tail(parts), keepEmpty)

C2_Expected(s, keepEmpty) ==
    LET parts == Split(s)
    IN (IF parts[1] # <<>> THEN <<Lit(parts[1])>> ELSE <<>>)
       \o C2_LaterParts(Tail(parts), keepEmpty)

C2_SplitsOnEveryHash ==
    LET parts == Split(raw)
    IN /\ JoinHash(parts) = raw
       /\ \A i \in 1..Len(parts) : \A k \in 1..Len(parts[i]) : parts[i][k] # Hash

\* C2 (as amended): the text is split on every '#' into p0..pn; p0 gives a
\* white segment iff it is non-empty; a later part of length >= 8 gives a
\* segment colored by its first 8 characters iff the remainder is non-empty;
\* a later part of length < 8 gives a white segment, without the '#', iff
\* it is non-empty; the segments are in input order.
C2_DecodeByParts ==
    Decoded => /\ C2_SplitsOnEveryHash
               /\ segments = C2_Expected(raw, FALSE)

\* C2 as stated: every later part of length < 8 gives a white segment, the
\* empty ones included.
C2_DecodeByParts_Original ==
    Decoded => /\ C2_SplitsOnEveryHash
               /\ segments = C2_Expected(raw, TRUE)

\* "z#aaaaaaaaz" was decoded to [("z", white), ("z", aaaaaaaa)]
C2_Witness ==
    /\ codecPc = "decoded"
    /\ raw = <<"z", Hash>> \o Repeat("a", ColorLen) \o <<"z">>
    /\ segments = <<Lit(<<"z">>), [text |-> <<"z">>, color |-> Repeat("a", ColorLen)]>>

NoEmptyPayload(s) ==
    LET parts == Split(s)
    IN \A i \in 2..Len(parts) : Len(parts[i]) # ColorLen

\* C3: when no directive of the text has an empty payload, the texts of the
\* decoded segments, concatenated in order, are the stripped text.
C3_DecodeAgreesWithStrip ==
    (codecPc = "stripped" /\ NoEmptyPayload(raw)) => ConcatTexts(segments) = plain

\* a text with a short fragment and a directive with a payload was stripped
C3_Witness ==
    /\ codecPc = "stripped"
    /\ raw = <<Hash, "z", Hash>> \o Repeat("a", ColorLen) \o <<"z">>
    /\ NoEmptyPayload(raw)
    /\ Len(segments) = 2
    /\ plain = <<"z", "z">>

IsDirective(part) ==
    Len(part) >= ColorLen /\ \A k \in 1..ColorLen : part[k] \in HexDigits

RECURSIVE C4_LiteralLength(_)
C4_LiteralLength(parts) ==
    IF parts = <<>> THEN 0
    ELSE (IF IsDirective(Head(parts)) THEN Len(Head(parts)) - ColorLen ELSE Len(Head(parts)))
         + C4_LiteralLength(Tail(parts))

\* C4: a '#' is a directive only when 8 hexadecimal digits follow it: no
\* segment gets a color that is not 8 hexadecimal digits, and the stripped
\* text keeps every character that follows a '#' without 8 hexadecimal digits.
C4_DirectiveNeedsHex ==
    codecPc = "stripped" =>
        /\ \A k \in 1..Len(segments) : IsHexColor(segments[k].color)
        /\ Len(plain) = Len(Split(raw)[1]) + C4_LiteralLength(Tail(Split(raw)))

----------------------------------------------------------------------------
(* Properties of the comparison table, checked under SpecCompare.          *)

Rendered == comparePc = "rendered"
IsBest(cell) == cell.color = "green"
IsWorst(cell) == cell.color = "red"

\* the players of the cohort that have a score in the row, and their scores
PresentPlayers == {p \in Range(playersData) : p \in DOMAIN comparisonRow.scores}
PresentScores == {comparisonRow.scores[p] : p \in PresentPlayers}
RowMax == CHOOSE m \in PresentScores : \A x \in PresentScores : x <= m
RowMin == CHOOSE m \in PresentScores : \A x \in PresentScores : m <= x
ScoreAt(i) == comparisonRow.scores[playersData[i]]
PresentColumns == {i \in 1..Len(playersData) : playersData[i] \in PresentPlayers}

C6_AllTied ==
    (Rendered /\ Cardinality(PresentPlayers) >= 2 /\ RowMax = RowMin) =>
        /\ \A i \in PresentColumns : IsBest(cells[i])
        /\ \A i \in 1..Len(playersData) : ~IsWorst(cells[i])

\* three players with the same score, all of them best
C6_Witness ==
    /\ Rendered /\ Len(playersData) = 3
    /\ Cardinality(PresentPlayers) = 3 /\ RowMax = RowMin
    /\ \A i \in 1..3 : IsBest(cells[i])

----------------------------------------------------------------------------
(* Properties of the speedrun leaderboard, checked under SpecSpeedrun.     *)

\* the four buckets with the scope and the mode each belongs to
BucketTable ==
    {<<"official", "1p", "score_1p_official">>, <<"official", "2p", "score_2p_official">>,
     <<"community", "1p", "score_1p_community">>, <<"community", "2p", "score_2p_community">>}

RECURSIVE SumOf(_, _)
SumOf(bs, entry) ==
    IF bs = {} THEN 0
    ELSE LET b == CHOOSE x \in bs : TRUE IN entry[b[3]] + SumOf(bs \ {b}, entry)

\* the sum of the buckets whose scope and mode the selection includes
SelectedSum(entry, scope, mode) ==
    SumOf({b \in BucketTable : (scope = "all" \/ scope = b[1]) /\ (mode = "all" \/ mode = b[2])},
          entry)

\* C9: whatever levelScope and playerMode are, the composite score of an entry
\* is the sum of exactly the buckets whose scope and mode are both included
\* by the selection ('all' includes both values of its axis), and the
\* display score of every table row is that sum rounded to 2 decimals.
C9_CompositeIsSelectedSum ==
    /\ \A i \in DOMAIN data :
          CompositeScore(data[i].buckets, levelScope, playerMode)
              = SelectedSum(data[i].buckets, levelScope, playerMode)
    /\ \A k \in DOMAIN filteredData :
          filteredData[k].display_score =
              ToFixed2(SelectedSum(filteredData[k].buckets, levelScope, playerMode))

\* official levels, both modes: the row shows 1/16 + 1/16 = 0.125 as 0.13
C9_Witness ==
    /\ levelScope = "official" /\ playerMode = "all" /\ ~effectPending
    /\ Len(filteredData) = 1
    /\ filteredData[1].buckets = [score_1p_official |-> 1, score_2p_official |-> 1,
                                  score_1p_community |-> 0 - 1, score_2p_community |-> 0]
    /\ filteredData[1].display_score = 13

Shown(i) == \E k \in DOMAIN filteredData : filteredData[k].player_uuid = data[i].player_uuid

\* C10: with the exclusion of zero scores in force, an entry is removed from
\* the table iff its composite score is exactly 0: the entries with a
\* non-zero composite, the negative ones included, are kept.
C10_ExcludeZeroExactly ==
    \A i \in DOMAIN data :
        Shown(i) <=> ToFixed2(CompositeScore(data[i].buckets, levelScope, playerMode)) # 0

\* n hundredths is x sixteenths rounded to 2 decimals, half up: n / 100 is
\* a nearest hundredth of x, of the sign of x, and when x lies half-way
\* between two hundredths it is the one of larger magnitude
IsHalfUp2(x, n) ==
    /\ (x >= 0 => n >= 0) /\ (x <= 0 => n <= 0)
    /\ LET e == 100 * Abs(x) - 16 * Abs(n)
       IN 0 - 8 <= e /\ e < 8

\* C11: the display score is the sum of the selected buckets rounded to 2
\* decimals, half up, the sum being rounded once.
C11_RoundedOnce ==
    /\ \A i \in DOMAIN data :
          IsHalfUp2(SelectedSum(data[i].buckets, levelScope, playerMode),
                    ToFixed2(CompositeScore(data[i].buckets, levelScope, playerMode)))
    /\ \A k \in DOMAIN filteredData :
          IsHalfUp2(SelectedSum(filteredData[k].buckets, levelScope, playerMode),
                    filteredData[k].display_score)

\* 1/16 + 1/16 is shown as 0.13, where the two buckets rounded one by one
\* would give 0.06 + 0.06
C11_Witness ==
    /\ levelScope = "all" /\ playerMode = "1p" /\ ~effectPending
    /\ Len(filteredData) = 1
    /\ filteredData[1].buckets.score_1p_official = 1
    /\ filteredData[1].buckets.score_1p_community = 1
    /\ filteredData[1].display_score = 13
    /\ ToFixed2(1) + ToFixed2(1) = 12

----------------------------------------------------------------------------
(* Properties of the time-valued score cells, checked under SpecTime.      *)

TimeRendered == timePc \in {"profile", "compare"}
TwoDigits(n) == IF n < 10 THEN <<"0">> \o NatToString(n) ELSE NatToString(n)

\* the rendering the specification gives for a raw score r (in 1/100 tick):
\* totalSeconds = abs(r) / 30, minutes = floor(totalSeconds / 60),
\* seconds = floor(totalSeconds mod 60), centiseconds = round(frac * 100)
SpecifiedTime(r) ==
    LET a == Abs(r)
        whole == a \div SecondUnit
        minutes == whole \div 60
        seconds == whole % 60
        centiseconds == (200 * (a - whole * SecondUnit) + SecondUnit) \div (2 * SecondUnit)
    IN  NatToString(minutes) \o <<":">> \o TwoDigits(seconds)
            \o <<".">> \o TwoDigits(centiseconds)

\* C12: a time-valued score raw is rendered as minutes:seconds.centiseconds
\* computed from totalSeconds = abs(raw) / 30, seconds and centiseconds
\* zero-padded to two digits, on the profile page and on the compare page;
\* 1800 ticks render as "1:00.00".
C12_TimeAsSpecified ==
    TimeRendered =>
        /\ timeCell.text = SpecifiedTime(rawScore)
        /\ (rawScore = 180000 => timeCell.text = <<"1", ":", "0", "0", ".", "0", "0">>)

\* C13: the sign of a time-valued raw score is ignored: on every page that
\* formats times the rendering of r is the rendering of -r, and -5400 ticks
\* render as "3:00.00".
C13_SignIgnored ==
    /\ timePc = "profile" => timeCell = ProfileCell(0 - rawScore)
    /\ timePc = "compare" => timeCell = CompareCell(0 - rawScore)
    /\ (TimeRendered /\ Abs(rawScore) = 540000)
            => timeCell.text = <<"3", ":", "0", "0", ".", "0", "0">>

\* C14: centiseconds that round to 100 carry into the seconds, and seconds
\* that reach 60 into the minutes: totalSeconds = 59.999 renders as
\* "1:00.00", and no rendered time has a centisecond field of 100 or a
\* seconds field of 60.
C14_CarriesRollover ==
    TimeRendered =>
        /\ timeCell.fraction # 100
        /\ timeCell.seconds # 60
        /\ (Abs(rawScore) = 179997
                => timeCell.text = <<"1", ":", "0", "0", ".", "0", "0">>)

----------------------------------------------------------------------------
(* Properties of the global filter of DataTable, checked under SpecFilter. *)

Retained(i) == \E k \in DOMAIN rowModel : rowModel[k] = i
Missing(value) == value.kind = "null"
\* stripCodes(String(v)) lowercased contains stripCodes(filter text) lowercased
Contains(value, filter) ==
    Includes(ToLowerCase(stripColorCodes(StringOf(value))),
             ToLowerCase(stripColorCodes(filter)))
ColoredJohn == StringValue(<<"j", "o", "h">> \o Red \o <<"n">>)
John == <<"j", "o", "h", "n">>

\* C15, as stated: a row is retained iff the claimed containment holds of
\* String(v) for at least one of its column values v, a missing one included.
C15_RetainedIffContains_Original ==
    \A i \in DOMAIN tableData :
        Retained(i) <=> \E col \in ColumnIds : Contains(tableData[i][col], globalFilter)

\* C15: a table row is retained by the global filter iff the filter text is
\* empty or at least one of its column values that is not missing satisfies:
\* stripCodes(String(v)) lowercased contains stripCodes(filter text)
\* lowercased; color directives in a value or in the filter text do not
\* affect the match, and "joh#ff0000ffn" matches the filter text "john".
C15_RetainedIffContains ==
    /\ \A i \in DOMAIN tableData :
          Retained(i) <=>
              \/ globalFilter = <<>>
              \/ \E col \in ColumnIds :
                    /\ ~Missing(tableData[i][col])
                    /\ Contains(tableData[i][col], globalFilter)
    /\ \A i \in DOMAIN tableData :
          (tableData[i].player_name = ColoredJohn /\ globalFilter = John) => Retained(i)

C15_Witness ==
    /\ Len(tableData) = 1
    /\ tableData[1].player_name = StringValue(<<"J", "o", "h", "n">>)
    /\ Missing(tableData[1].score)
    /\ globalFilter = <<"j", "o">> \o Red \o <<"h", "n">>
    /\ rowModel = <<1>>

\* C16: a column value that is null or undefined never matches the filter
\* and never makes filtering fail: under a non-empty filter text a retained
\* row has a value that is not missing and contains the text, a row whose
\* every value is missing is not retained, and the row model is a list of
\* rows of the table.
C16_MissingNeverMatches ==
    /\ \A k \in DOMAIN rowModel : rowModel[k] \in DOMAIN tableData
    /\ globalFilter # <<>> =>
          \A i \in DOMAIN tableData :
              /\ (\A col \in ColumnIds : Missing(tableData[i][col])) => ~Retained(i)
              /\ Retained(i) =>
                    \E col \in ColumnIds :
                        ~Missing(tableData[i][col]) /\ Contains(tableData[i][col], globalFilter)

C16_Witness ==
    /\ Len(tableData) = 1
    /\ Missing(tableData[1].player_name) /\ Missing(tableData[1].score)
    /\ globalFilter = <<"l">>
    /\ rowModel = <<>>

----------------------------------------------------------------------------
(* Properties of sorting, checked under SpecSort.                          *)

TableMounted == tablePc = "mounted"
\* the rows a and b of the table have equal values in the column of entry k
Tie(k, a, b) == CompareValues(tableData[a][sorting[k].id], tableData[b][sorting[k].id]) = 0
\* entry k puts row a before row b
Before(k, a, b) ==
    LET c == CompareValues(tableData[a][sorting[k].id], tableData[b][sorting[k].id])
    IN IF sorting[k].desc THEN c > 0 ELSE c < 0

\* C17: sorting is a stable multi-key sort. In the table every row is shown
\* once, and of two shown rows the earlier is the one the first sorting entry
\* that tells them apart puts first, or, when every entry ties, the one
\* earlier in the input. The speedrun leaderboard is in descending order of
\* display_score, entries of equal display_score in input order.
C17_StableMultiKeySort ==
    /\ TableMounted =>
        /\ \A i \in DOMAIN tableData : Cardinality({p \in DOMAIN rowModel : rowModel[p] = i}) = 1
        /\ \A p \in DOMAIN rowModel : \A q \in DOMAIN rowModel :
              p < q =>
                LET a == rowModel[p]
                    b == rowModel[q]
                IN \/ \E k \in DOMAIN sorting :
                        /\ \A j \in 1..(k - 1) : Tie(j, a, b)
                        /\ Before(k, a, b)
                   \/ /\ \A k \in DOMAIN sorting : Tie(k, a, b)
                      /\ a < b
    /\ \A i \in DOMAIN data :
          Cardinality({p \in DOMAIN filteredData : filteredData[p].player_uuid = i})
              = (IF ~effectPending /\ ~isLoading THEN 1 ELSE 0)
    /\ \A p \in DOMAIN filteredData : \A q \in DOMAIN filteredData :
          p < q =>
            \/ filteredData[p].display_score > filteredData[q].display_score
            \/ /\ filteredData[p].display_score = filteredData[q].display_score
               /\ filteredData[p].player_uuid < filteredData[q].player_uuid

C17_Witness ==
    /\ Len(data) = 2
    /\ data[1].buckets.score_1p_official = 1
    /\ data[2].buckets.score_1p_official = 1
    /\ Len(filteredData) = 2
    /\ filteredData[1].player_uuid = 1 /\ filteredData[2].player_uuid = 2
    /\ filteredData[1].display_score = filteredData[2].display_score

PlainName(i) == stripColorCodes(tableData[i].player_name.str)

\* C18: a table sorted by a column of colored names is ordered by the
\* decoded plain text of the names (stripCodes), compared by code point, not
\* by the raw strings: color directives do not change the order.
C18_SortsByPlainText ==
    (TableMounted /\ sorting # <<>> /\ sorting[1].id = "player_name") =>
        \A p \in DOMAIN rowModel : \A q \in DOMAIN rowModel :
            p < q =>
                IF sorting[1].desc
                THEN ~StringLess(PlainName(rowModel[p]), PlainName(rowModel[q]))
                ELSE ~StringLess(PlainName(rowModel[q]), PlainName(rowModel[p]))

----------------------------------------------------------------------------
(* Properties of the points of a rank, checked under SpecPoints.           *)

PointsDone == pointsPc = "done"

\* C19: pointsForRank(N, R) = (N^(1/6) * 100) / sqrt(R) for N >= 1
\* competitors and a rank R >= 1: with k the sixth root of N and r the square
\* root of R, the result times r is 100 * k; pointsForRank(64, 1) = 200 and
\* pointsForRank(64, 4) = 100.
C19_PointsFormula ==
    PointsDone =>
        /\ points.den > 0
        /\ \E k \in 1..MaxRoot : \E r \in 1..MaxRoot :
              /\ k * k * k * k * k * k = competitors
              /\ r * r = rank
              /\ points.num * r = 100 * k * points.den
        /\ (competitors = 64 /\ rank = 1) => points.num = 200 * points.den
        /\ (competitors = 64 /\ rank = 4) => points.num = 100 * points.den

C19_Witness ==
    /\ PointsDone /\ competitors = 64 /\ rank = 4
    /\ points.num = 100 * points.den

----------------------------------------------------------------------------
(* C21..C30: requests, selection, loading, sorting state, progress.        *)

\* what each piece of the profile page holds once its request has resolved
ExpectedProfile ==
    [history |-> Loaded(Reverse(profileApi.history)),
     placements |-> Loaded(profileApi.placements),
     xpHistory |-> Loaded(SortByTimestamp(profileApi.xpHistory)),
     blitzHistory |-> Loaded(SortByTimestamp(ScaleBsr(profileApi.blitzHistory))),
     scores |-> Loaded(IF profileApi.scores.hasLevels
                         THEN FlattenLevels(profileApi.scores.levels) ELSE <<>>)]

\* the players of the URL, each built from its own four responses
ExpectedPlayersData ==
    LET uuids == PlayerUuids(playersParam)
    IN [i \in DOMAIN uuids |-> PlayerData(uuids[i])]

PlayersAwaited == runs # <<>> /\ runs[1].stage = "players"

\* C21: the page state does not depend on the order in which the requests
\* complete.  On the profile page each piece is null while its request is
\* pending and holds the value made from its own response afterwards,
\* whatever the other four did; on the compare page, once the per-player
\* requests have all arrived, playersData is the players in the order of
\* playerUuids, and after the scores request the rows of that response.
C21_OrderIndependent ==
    /\ profilePc = "open" =>
        \A request \in ProfileRequests :
          profile[request] = IF request \in profilePending
                               THEN NoProfile[request]
                               ELSE ExpectedProfile[request]
    /\ (selectionPc = "mounted" /\ ~PlayersAwaited) =>
          playersData = ExpectedPlayersData
    /\ (selectionPc = "mounted" /\ runs = <<>>) =>
          /\ comparisonData =
                ComparisonRowsOf(ScoresResponse(PlayerUuids(playersParam)).levels)
          /\ loading = FALSE

\* the second player of the URL completed before the first, and
\* playersData has been set
C21_Witness ==
    /\ selectionPc = "mounted" /\ runs # <<>> /\ runs[1].stage = "scores"
    /\ Len(playersData) = 2
    /\ CompletionOrder(runs[1].arrived, {}) = <<2, 1>>

Settled == selectionPc = "mounted" /\ runs = <<>>

\* C22: once every invocation of fetchAllData has returned, playersData and
\* comparisonData are those of the selection in the URL: the result of an
\* invocation started for an earlier selection never stays on the page.
C22_LatestSelectionWins ==
    (Settled /\ PlayerUuids(playersParam) # <<>>) =>
        /\ playersData = ExpectedPlayersData
        /\ comparisonData =
              ComparisonRowsOf(ScoresResponse(PlayerUuids(playersParam)).levels)

\* C23: whenever no player is selected and the page is not loading,
\* playersData is empty (the page says 'No players selected').
C23_EmptySelectionShowsNone ==
    (selectionPc = "mounted" /\ PlayerUuids(playersParam) = <<>> /\ ~loading) =>
        playersData = <<>>

NoDuplicate(seq) == \A i, j \in DOMAIN seq : i # j => seq[i] # seq[j]
WellFormed(uuids) == NoDuplicate(uuids) /\ \A k \in DOMAIN uuids : uuids[k] # <<>>

\* a step that appends one new, non-empty id at the end of the list
Appends(old, new) ==
    /\ Len(new) = Len(old) + 1
    /\ SubSeq(new, 1, Len(old)) = old
    /\ new[Len(new)] # <<>>
    /\ \A k \in DOMAIN old : old[k] # new[Len(new)]

\* a step that takes one id out of the list and keeps the others in order;
\* when none is left the parameter is deleted
Removes(old, new, param) ==
    /\ \E k \in DOMAIN old : new = Remove(old, k)
    /\ new = <<>> => param = NullParam

C25_CommunityIsOnePlayer ==
    (~effectPending /\ levelScope = "community") => playerMode = "1p"

\* community is chosen, its effect has run, and the data is there
C25_Witness ==
    /\ ~effectPending /\ levelScope = "community" /\ playerMode = "1p"
    /\ ~isLoading /\ data # <<>>

ProfileLoaded == \A request \in ProfileRequests : ~profile[request].isNull

\* C26: every loading indicator is cleared in the end, whether its request
\* succeeded or failed: loading of the compare page and isLoading of the
\* leaderboard page become false for good, and on the profile page each of
\* history, placements, xpHistory, blitzHistory and scores leaves null.
C26_IndicatorsCleared ==
    <>[](~loading /\ ~isLoading /\ (profilePc = "open" => ProfileLoaded))

\* C27: a sort order chosen by the user is kept across renders of the parent
\* as long as defaultSort has not changed in value: a step in which the
\* parent passes a defaultSort of the same value leaves sorting as it is.
C27_SortKeptAcrossRenders ==
    [][(defaultSort' # defaultSort /\ defaultSort'.value = defaultSort.value) =>
          sorting' = sorting]_vars

InFlight == progressMounted /\ progressPc = "inFlight"

ProgressStates ==
    /\ InFlight => progress <= Scaled(ProgressCap)
    /\ (progressMounted /\ progressPc = "settled") =>
          ~intervalActive /\ progress = Scaled(ProgressDone)
    /\ (progressMounted /\ ~profileLoading) => progress = Scaled(ProgressDone)

\* C28: while the request is in flight progress never decreases and never
\* exceeds 95; when it settles, by success or by failure, the interval is
\* stopped and progress is 100; loading is false only with progress at 100,
\* and once at 100 progress stays there.
C28_ProgressBar ==
    /\ ProgressStates
    /\ [][/\ ProgressStates'
          /\ (InFlight /\ InFlight') => progress' >= progress
          /\ (progressMounted' /\ progress = Scaled(ProgressDone)) =>
                progress' = Scaled(ProgressDone)]_vars

\* the request failed, the bar went to 100 and loading has ended
C28_Witness ==
    /\ progressMounted /\ progressPc = "settled" /\ ~profileFetched
    /\ progress = Scaled(ProgressDone) /\ ~profileLoading

WholeTicks == rawScore % 100 = 0

\* C29: for a raw score that is a whole number of ticks, formatted on the
\* profile page from totalSeconds = abs(raw) / 30, the centiseconds lie in
\* 0..97 and the seconds in 0..59, and the text has exactly two digits of
\* each after the minutes; a centisecond field of 100 does not occur.
C29_WholeTicksInRange ==
    (timePc = "profile" /\ WholeTicks) =>
        /\ timeCell.fraction \in 0..97
        /\ timeCell.seconds \in 0..59
        /\ timeCell.text = NatToString(timeCell.minutes) \o <<":">>
                              \o TwoDigits(timeCell.seconds) \o <<".">>
                              \o TwoDigits(timeCell.fraction)
        /\ Len(timeCell.text) = Len(NatToString(timeCell.minutes)) + 6

\* -1799 ticks, 59.9667 seconds: the largest seconds and centiseconds
C29_Witness ==
    /\ timePc = "profile" /\ rawScore = 0 - 179900
    /\ timeCell.seconds = 59 /\ timeCell.fraction = 97
    /\ timeCell.text = <<"0", ":", "5", "9", ".", "9", "7">>

RowsBuilt == rowsPc = "rows" /\ scoresRes.hasLevels

RowsOf(level) == {k \in DOMAIN comparisonData : comparisonData[k].level_uuid = level.level_uuid}

\* the rows that show score s of a level: rows of that level and of the
\* value type of s that hold the score of s under the uuid of its player
RowsShowing(level, s) ==
    {k \in RowsOf(level) :
        /\ comparisonData[k].value_type = s.value_type
        /\ s.player_uuid \in DOMAIN comparisonData[k].scores
        /\ comparisonData[k].scores[s.player_uuid] = s.score}

\* one row per distinct value type of a level, and a single row of value
\* type 0 without scores for a level that has none
OneRowPerType(level) ==
    IF level.scores = <<>>
      THEN \E k \in RowsOf(level) :
              /\ RowsOf(level) = {k}
              /\ comparisonData[k].value_type = 0
              /\ DOMAIN comparisonData[k].scores = {}
      ELSE /\ \A k \in DOMAIN level.scores :
                 \E r \in RowsOf(level) :
                     comparisonData[r].value_type = level.scores[k].value_type
           /\ \A q, r \in RowsOf(level) :
                 comparisonData[q].value_type = comparisonData[r].value_type => q = r
           /\ \A r \in RowsOf(level) :
                 \E k \in DOMAIN level.scores :
                     level.scores[k].value_type = comparisonData[r].value_type

\* every entry of a row is a score of that level, type and player
RowsHoldOnlyScores(level) ==
    \A r \in RowsOf(level) : \A uuid \in DOMAIN comparisonData[r].scores :
        \E k \in DOMAIN level.scores :
            /\ level.scores[k].player_uuid = uuid
            /\ level.scores[k].value_type = comparisonData[r].value_type
            /\ level.scores[k].score = comparisonData[r].scores[uuid]

\* C30: processComparisonData builds one row per distinct value type of each
\* level (one row of value type 0 for a level without scores), and every
\* score of the response appears in exactly one row: under the uuid of its
\* player, in the row of its level and value type.
C30_EveryScoreInItsRow ==
    RowsBuilt =>
        \A n \in DOMAIN scoresRes.levels :
            LET level == scoresRes.levels[n]
            IN /\ OneRowPerType(level)
               /\ RowsHoldOnlyScores(level)
               /\ \A k \in DOMAIN level.scores :
                     Cardinality(RowsShowing(level, level.scores[k])) = 1

====
